---- MODULE Spec2Model ----
(***************************************************************************)
(* luogu-saver-bot: the render-and-capture commands of src/index.ts        *)
(* ("获取文章" and "获取剪贴板"), the LuoguSaverClient document fetch and       *)
(* LuoguSaverClient.buildUrl, as a state machine.                          *)
(*                                                                         *)
(* Every command invocation is an async function; each `await` of the      *)
(* source is a position (pc) at which the invocation is suspended, and     *)
(* each action below is the code that runs from one await to the next.     *)
(* Times are in milliseconds, as in the source.                            *)
(***************************************************************************)
EXTENDS Integers, Sequences, FiniteSets

(* ---- bounds of the model ---- *)
MaxImgs == 2         \* images in one snapshot (document.images.length)
Tick == 20000        \* largest amount of time one Elapse step lets pass; a
                     \* wait that has no timer is followed for one Tick
MaxStrLen == 3       \* length of the endpoint and path strings of buildUrl

(* ---- constants of the program ---- *)
OkCode == 200             \* res.code !== 200
ImageCeiling == 5000      \* setTimeout(() => resolve(null), 5000)
TypesetCeiling == 20000   \* waitForFunction(..., { timeout: 20000 })

(* Two command invocations run concurrently.  Invocations share nothing but  *)
(* the browser behind ctx.puppeteer (openPages).                            *)
Req == {1, 2}
Pollers == {1, 2}
TaskStatuses == 0..3
Kinds == {"article", "paste"}
EnvelopeCodes == {200, 404, 500}
Chars == {"/", "a"}

Min(a, b) == IF a <= b THEN a ELSE b

VARIABLES
  pc,           \* position of each invocation (the await it is suspended at)
  kind,         \* "article" | "paste" | "none" before the command is invoked
  result,       \* what the action returned, or "thrown"
  fetchOutcome, \* how ctx.http.get ended: "none" | "answered" | "transport"
  envCode,      \* res.code of the envelope that came back (0: none)
  snapshot,     \* generateHtml has returned the html
  navOk,        \* page.setContent has returned
  fontChecked,  \* page.evaluate(() => document.fonts.ready) was run
  typesetChecked, \* page.waitForFunction('window.__katex_render_done ...') was run
  imgChecked,   \* page.evaluate of the image promise was called
  degraded,     \* a readiness check of this invocation rejected (was caught)
  idGiven,      \* the command was given its <id> argument
  puppeteerSeen, \* what `ctx.puppeteer` was when the action looked: "none" | "yes" | "no"
  navTimedOut,  \* page.setContent rejected with its navigation timeout
  captureFault, \* page.screenshot rejected
  nImgs,        \* imgs.length of the image promise
  pending,      \* images with listeners that have fired neither load nor error
  loaded,       \* the `loaded` counter of the image promise
  listeners,    \* images that got load/error listeners registered
  timer,        \* the 5000 ms timer: "none" | "armed" | "cleared" | "fired"
  imgResolved,  \* the image promise is resolved
  resolveCalls, \* number of calls of resolve(null)
  waited,       \* time passed since setContent returned, until capture starts
  imgElapsed,   \* time passed since the image promise was created
  fetches,      \* ctx.http.get calls issued
  acquires,     \* pages obtained from ctx.puppeteer.page()
  captures,     \* page.screenshot calls issued
  closes,       \* page.close() calls
  openPages,    \* pages of the browser that are open
  endpoint,     \* LuoguSaverClient.endpoint          (buildUrl)
  path,         \* the path handed to buildUrl        (buildUrl)
  url,          \* what buildUrl returned             (buildUrl)
  ustate,       \* "input" | "built"                  (buildUrl)
  \* the task commands and the remote task table (one task id)
  remoteTask,   \* <<>> while the remote has no such task, else <<status>>
  tpc,          \* 创建保存任务: "idle" | "posting" | "done"
  tresult,      \* "none" | "created" | "createFailed" | "thrown"
  createCode,   \* envelope code of the answer to POST /task/create, 0 = none
  creates,      \* POST /task/create requests sent
  ppc,          \* 查询任务状态, per invocation: "idle" | "querying" | "done"
  presult,      \* "none" | "needId" | "notFound" | "status" | "thrown"
  pstatus,      \* what getTask returned: <<>> (null) or <<status>>
  qcode,        \* envelope code of the answer to GET /task/query, 0 = none
  queries,      \* GET /task/query requests sent by the invocation
  lastData      \* data of the latest answered query (the client keeps none)

reqVars == <<pc, kind, result, fetchOutcome, envCode, snapshot, navOk,
             fontChecked, typesetChecked, imgChecked, degraded, idGiven,
             puppeteerSeen, navTimedOut, captureFault, nImgs, pending,
             loaded, listeners, timer, imgResolved, resolveCalls, waited,
             imgElapsed, fetches, acquires, captures, closes, openPages>>
urlVars == <<endpoint, path, url, ustate>>
taskVars == <<remoteTask, tpc, tresult, createCode, creates, ppc, presult,
              pstatus, qcode, queries, lastData>>
auxVars == <<urlVars, taskVars>>
vars == <<reqVars, urlVars, taskVars>>

Set(f, r, v) == [f EXCEPT ![r] = v]

(***************************************************************************)
(* Pure parts of the code.                                                 *)
(***************************************************************************)

(* getArticle / getPaste: `if (res.code !== 200) return null; return res.data` *)
getDocumentOnly404(code) == IF code = 404 THEN "null" ELSE "data"

getDocument(code) == IF code # OkCode THEN "null" ELSE "data"

(* ctx.puppeteer.page(): the call is made unconditionally once the service  *)
(* exists; nothing in the action looks at how many pages are already open. *)
pageAvailablePooled(open) == open < 1

pageAvailable(open) == TRUE

(* `if (!ctx.puppeteer) return '当前没有可用的 puppeteer 服务。'`: page() is  *)
(* called only when the service is there                                    *)
puppeteerGuardMissing(avail) == TRUE

puppeteerGuard(avail) == avail

(* `await page.setContent(html, { waitUntil: 'networkidle0' })` has no      *)
(* try/catch of its own: any rejection, its navigation timeout included,    *)
(* leaves the try block through the outer catch                             *)
afterNavigationTolerant(how) == IF how = "fault" THEN "fail" ELSE "continue"

afterNavigation(how) == IF how = "ok" THEN "continue" ELSE "fail"

(* `const buffer = await page.screenshot(...); return h.image(buffer)` and  *)
(* `catch (err) { ...; return '获取失败' }`: one attempt, no retry            *)
captureResultSwallowed(ok) == "image"

captureResult(ok) == IF ok THEN "image" ELSE "failed"

(* `await page.evaluate(() => new Promise((resolve) => { ... }))`: the await *)
(* returns only once the promise built in the page has been resolved        *)
evaluateNotAwaited(resolved) == TRUE

evaluateSettled(resolved) == resolved

(* try { await <readiness check> } catch (e) { ... }: the fault is swallowed *)
(* (logged for the fonts) and the action goes on to its next statement.     *)
afterReadinessFatal(ok) == IF ok THEN "continue" ELSE "fail"

afterReadiness(ok) == "continue"

(* page.waitForFunction(..., { timeout: 20000 }) *)
waitForFunctionDefault == 3 * 10000

waitForFunctionTimeout == TypesetCeiling

(* The body of the image promise, run once in the page.  n is               *)
(* document.images.length, c the number of images whose `complete` is       *)
(* already true (the loop treats every image alike).                        *)
(* article: the timer is set before the loop and cleared when every image  *)
(* was complete; paste: the timer is set last, also after a resolve.        *)
imagePromiseNoTimer(k, n, c) ==
  IF n = 0
  THEN [loaded |-> 0, listeners |-> 0, timer |-> "none",
        resolved |-> TRUE, calls |-> 1]
  ELSE [loaded |-> c, listeners |-> n - c, timer |-> "none",
        resolved |-> (c = n), calls |-> IF c = n THEN 1 ELSE 0]

imagePromiseNoEarlyReturn(k, n, c) ==
  [loaded |-> c, listeners |-> n - c,
   timer |-> IF k = "article" /\ c = n THEN "cleared" ELSE "armed",
   resolved |-> (c = n), calls |-> IF c = n THEN 1 ELSE 0]

imagePromise(k, n, c) ==
  IF n = 0
  THEN [loaded |-> 0, listeners |-> 0, timer |-> "none",
        resolved |-> TRUE, calls |-> 1]
  ELSE LET ld == c
           all == (ld = n)
       IN [loaded |-> ld,
           listeners |-> n - ld,
           timer |-> IF k = "article" /\ all THEN "cleared" ELSE "armed",
           resolved |-> all,
           calls |-> IF all THEN 1 ELSE 0]

(* `img.addEventListener('load', handler)` and                              *)
(* `img.addEventListener('error', handler)`: both events are counted        *)
listenedEventsLoadOnly == {"load"}

listenedEvents == {"load", "error"}

(* resolve(null) on the promise built in the page: only the first call      *)
(* settles it, a later call (the timer after the last image, or the last    *)
(* image after the timer) is ignored                                        *)
settlesEveryCall(already) == TRUE

settles(already) == ~already

(* handler: `loaded++; if (loaded === imgs.length) { clearTimeout(timeout);  *)
(* resolve(null) }` (article) / `... resolve(null)` (paste, no clearTimeout) *)
handler(k, ld, n, tm) ==
  LET all == (ld + 1 = n)
  IN [loaded |-> ld + 1,
      timer |-> IF k = "article" /\ all /\ tm = "armed" THEN "cleared" ELSE tm,
      resolve |-> all]

(* LuoguSaverClient.buildUrl(path), strings as sequences of characters:     *)
(*   const base = this.endpoint.replace(/\/$/, '')                          *)
(*   if (!base) return path                                                 *)
(*   if (path.startsWith('/')) return `${base}${path}`                      *)
(*   return `${base}/${path}`                                               *)
buildUrlNoTrim(ep, p) ==
  IF ep = <<>> THEN p
  ELSE IF p # <<>> /\ p[1] = "/" THEN ep \o p
  ELSE ep \o <<"/">> \o p

buildUrl(ep, p) ==
  LET base == IF ep # <<>> /\ ep[Len(ep)] = "/"
              THEN SubSeq(ep, 1, Len(ep) - 1) ELSE ep
  IN IF base = <<>> THEN p
     ELSE IF p # <<>> /\ p[1] = "/" THEN base \o p
     ELSE base \o <<"/">> \o p

(***************************************************************************)
(* The state after construction: no command has been invoked.              *)
(***************************************************************************)
ReqInit ==
  /\ pc = [r \in Req |-> "idle"]
  /\ kind = [r \in Req |-> "none"]
  /\ result = [r \in Req |-> "none"]
  /\ fetchOutcome = [r \in Req |-> "none"]
  /\ envCode = [r \in Req |-> 0]
  /\ snapshot = [r \in Req |-> FALSE]
  /\ navOk = [r \in Req |-> FALSE]
  /\ fontChecked = [r \in Req |-> FALSE]
  /\ typesetChecked = [r \in Req |-> FALSE]
  /\ imgChecked = [r \in Req |-> FALSE]
  /\ degraded = [r \in Req |-> FALSE]
  /\ idGiven = [r \in Req |-> FALSE]
  /\ puppeteerSeen = [r \in Req |-> "none"]
  /\ navTimedOut = [r \in Req |-> FALSE]
  /\ captureFault = [r \in Req |-> FALSE]
  /\ nImgs = [r \in Req |-> 0]
  /\ pending = [r \in Req |-> 0]
  /\ loaded = [r \in Req |-> 0]
  /\ listeners = [r \in Req |-> 0]
  /\ timer = [r \in Req |-> "none"]
  /\ imgResolved = [r \in Req |-> FALSE]
  /\ resolveCalls = [r \in Req |-> 0]
  /\ waited = [r \in Req |-> 0]
  /\ imgElapsed = [r \in Req |-> 0]
  /\ fetches = [r \in Req |-> 0]
  /\ acquires = [r \in Req |-> 0]
  /\ captures = [r \in Req |-> 0]
  /\ closes = [r \in Req |-> 0]
  /\ openPages = 0

UrlIdle ==
  /\ endpoint = <<>>
  /\ path = <<>>
  /\ url = <<>>
  /\ ustate = "input"

TaskIdle ==
  /\ remoteTask = <<>>
  /\ tpc = "idle"
  /\ tresult = "none"
  /\ createCode = 0
  /\ creates = 0
  /\ ppc = [p \in Pollers |-> "idle"]
  /\ presult = [p \in Pollers |-> "none"]
  /\ pstatus = [p \in Pollers |-> <<>>]
  /\ qcode = [p \in Pollers |-> 0]
  /\ queries = [p \in Pollers |-> 0]
  /\ lastData = <<>>

Init == ReqInit /\ UrlIdle /\ TaskIdle

(***************************************************************************)
(* The command actions of apply(), one TLA+ action per await.              *)
(***************************************************************************)

fetchVars == <<fetchOutcome, envCode, fetches>>
stageVars == <<snapshot, navOk, fontChecked, typesetChecked, imgChecked,
               degraded, idGiven, puppeteerSeen, navTimedOut, captureFault>>
pageVars == <<nImgs, pending, loaded, listeners, timer, imgResolved,
              resolveCalls, waited, imgElapsed>>

(* `return <message>` (or a rejection) before any page was obtained *)
Return(r, res) ==
  /\ result' = Set(result, r, res)
  /\ pc' = Set(pc, r, "done")

EndTryCloseOnSuccess(r, res) ==
  /\ result' = Set(result, r, res)
  /\ closes' = Set(closes, r, closes[r] + IF res = "image" THEN 1 ELSE 0)
  /\ openPages' = openPages - IF res = "image" THEN 1 ELSE 0
  /\ pc' = Set(pc, r, "done")
  /\ nImgs' = Set(nImgs, r, 0)
  /\ pending' = Set(pending, r, 0)
  /\ loaded' = Set(loaded, r, 0)
  /\ listeners' = Set(listeners, r, 0)
  /\ timer' = Set(timer, r, "none")
  /\ imgResolved' = Set(imgResolved, r, FALSE)
  /\ resolveCalls' = Set(resolveCalls, r, 0)
  /\ waited' = Set(waited, r, 0)
  /\ imgElapsed' = Set(imgElapsed, r, 0)

(* leaving the try block: `return`/`catch` sets the result and              *)
(* `finally { page.close() }` runs before the action settles; the page and  *)
(* everything in it (images, listeners, the timer, the promise) are gone    *)
EndTry(r, res) ==
  /\ result' = Set(result, r, res)
  /\ closes' = Set(closes, r, closes[r] + 1)
  /\ openPages' = openPages - 1
  /\ pc' = Set(pc, r, "done")
  /\ nImgs' = Set(nImgs, r, 0)
  /\ pending' = Set(pending, r, 0)
  /\ loaded' = Set(loaded, r, 0)
  /\ listeners' = Set(listeners, r, 0)
  /\ timer' = Set(timer, r, "none")
  /\ imgResolved' = Set(imgResolved, r, FALSE)
  /\ resolveCalls' = Set(resolveCalls, r, 0)
  /\ waited' = Set(waited, r, 0)
  /\ imgElapsed' = Set(imgElapsed, r, 0)

(* the try block goes on: nothing is returned, the page stays as it is      *)
KeepPage == UNCHANGED <<result, closes, openPages, pageVars>>

(* the command is invoked: `if (!id) return '请提供...'`, else the fetch     *)
(* (buildUrl, ctx.http.get) is issued                                       *)
Invoke(r, k, hasId) ==
  /\ pc[r] = "idle"
  /\ kind' = Set(kind, r, k)
  /\ idGiven' = Set(idGiven, r, hasId)
  /\ IF hasId
     THEN /\ fetches' = Set(fetches, r, fetches[r] + 1)
          /\ pc' = Set(pc, r, "fetch")
          /\ UNCHANGED result
     ELSE /\ Return(r, "needId")
          /\ UNCHANGED fetches
  /\ UNCHANGED <<fetchOutcome, envCode, snapshot, navOk, fontChecked,
                 typesetChecked, imgChecked, degraded, puppeteerSeen,
                 navTimedOut, captureFault, pageVars, acquires, captures,
                 closes, openPages, auxVars>>

(* ctx.http.get settles: it rejects on a transport failure, ~reached        *)
(* (nothing in getArticle/getPaste or in the action catches it), else the   *)
(* envelope code decides; a document starts generateHtml                    *)
FetchReturn(r, reached, code) ==
  /\ pc[r] = "fetch"
  /\ IF ~reached
     THEN /\ fetchOutcome' = Set(fetchOutcome, r, "transport")
          /\ UNCHANGED envCode
          /\ Return(r, "thrown")
     ELSE /\ fetchOutcome' = Set(fetchOutcome, r, "answered")
          /\ envCode' = Set(envCode, r, code)
          /\ IF getDocument(code) = "null"
             THEN Return(r, "notFound")
             ELSE /\ pc' = Set(pc, r, "render")
                  /\ UNCHANGED result
  /\ UNCHANGED <<kind, fetches, stageVars, pageVars, acquires, captures,
                 closes, openPages, auxVars>>

(* generateHtml settles; then `if (!ctx.puppeteer) return ...`, else        *)
(* ctx.puppeteer.page() is called                                           *)
RenderReturn(r, ok, avail) ==
  /\ pc[r] = "render"
  /\ IF ~ok
     THEN /\ Return(r, "thrown")
          /\ UNCHANGED snapshot
          /\ UNCHANGED puppeteerSeen
     ELSE /\ snapshot' = Set(snapshot, r, TRUE)
          /\ puppeteerSeen' = Set(puppeteerSeen, r, IF avail THEN "yes" ELSE "no")
          /\ IF puppeteerGuard(avail)
             THEN /\ pc' = Set(pc, r, "acquire")
                  /\ UNCHANGED result
             ELSE Return(r, "noPuppeteer")
  /\ UNCHANGED <<kind, fetchVars, idGiven, navOk, fontChecked, typesetChecked,
                 imgChecked, degraded, navTimedOut, captureFault, pageVars,
                 acquires, captures, closes, openPages, auxVars>>

(* ctx.puppeteer.page() settles (outside the try): a page, and              *)
(* page.setViewport is called; or a rejection, which the action rethrows    *)
AcquireReturn(r, ok) ==
  /\ pc[r] = "acquire"
  /\ pageAvailable(openPages)
  /\ ok => puppeteerSeen[r] = "yes"
  /\ IF ok
     THEN /\ acquires' = Set(acquires, r, acquires[r] + 1)
          /\ openPages' = openPages + 1
          /\ pc' = Set(pc, r, "viewport")
          /\ UNCHANGED result
     ELSE /\ Return(r, "thrown")
          /\ UNCHANGED <<acquires, openPages>>
  /\ UNCHANGED <<kind, fetchVars, stageVars, pageVars, captures, closes,
                 auxVars>>

(* page.setViewport settles; page.setContent(html, networkidle0) is called  *)
ViewportReturn(r, ok) ==
  /\ pc[r] = "viewport"
  /\ IF ok
     THEN /\ pc' = Set(pc, r, "nav")
          /\ KeepPage
     ELSE EndTry(r, "failed")
  /\ UNCHANGED <<kind, fetchVars, stageVars, acquires, captures, auxVars>>

(* page.setContent settles: a rejection (its navigation timeout included)   *)
(* goes to the outer catch; else the first readiness check is started:      *)
(* document.fonts.ready (article) or waitForFunction (paste)                *)
NavReturn(r, how) ==
  /\ pc[r] = "nav"
  /\ navTimedOut' = Set(navTimedOut, r, how = "timeout")
  /\ IF afterNavigation(how) = "continue"
     THEN /\ navOk' = Set(navOk, r, how = "ok")
          /\ IF kind[r] = "article"
             THEN /\ fontChecked' = Set(fontChecked, r, TRUE)
                  /\ pc' = Set(pc, r, "font")
                  /\ UNCHANGED typesetChecked
             ELSE /\ typesetChecked' = Set(typesetChecked, r, TRUE)
                  /\ pc' = Set(pc, r, "typeset")
                  /\ UNCHANGED fontChecked
          /\ KeepPage
     ELSE /\ EndTry(r, "failed")
          /\ UNCHANGED <<navOk, fontChecked, typesetChecked>>
  /\ UNCHANGED <<kind, fetchVars, idGiven, snapshot, imgChecked, degraded,
                 puppeteerSeen, captureFault, acquires, captures, auxVars>>

(* The first readiness check has settled (ok: resolved, ~ok: rejected).     *)
(* The try/catch around it decides what a rejection does; going on means    *)
(* calling page.evaluate with the image promise.                            *)
ToImageCheck(r, ok) ==
  /\ degraded' = Set(degraded, r, degraded[r] \/ ~ok)
  /\ IF afterReadiness(ok) = "continue"
     THEN /\ imgChecked' = Set(imgChecked, r, TRUE)
          /\ pc' = Set(pc, r, "imgeval")
          /\ KeepPage
     ELSE /\ EndTry(r, "failed")
          /\ UNCHANGED imgChecked
  /\ UNCHANGED <<kind, fetchVars, idGiven, snapshot, navOk, fontChecked,
                 typesetChecked, puppeteerSeen, navTimedOut, captureFault,
                 acquires, captures, auxVars>>

(* The image check has settled; going on means calling page.screenshot.     *)
ToCapture(r, ok) ==
  /\ degraded' = Set(degraded, r, degraded[r] \/ ~ok)
  /\ IF afterReadiness(ok) = "continue"
     THEN /\ captures' = Set(captures, r, captures[r] + 1)
          /\ pc' = Set(pc, r, "capture")
          /\ KeepPage
     ELSE /\ EndTry(r, "failed")
          /\ UNCHANGED captures
  /\ UNCHANGED <<kind, fetchVars, idGiven, snapshot, navOk, fontChecked,
                 typesetChecked, imgChecked, puppeteerSeen, navTimedOut,
                 captureFault, acquires, auxVars>>

(* article: page.evaluate(() => document.fonts.ready) settles               *)
FontReturn(r, ok) ==
  /\ pc[r] = "font"
  /\ ToImageCheck(r, ok)

(* paste: page.waitForFunction settles before its timeout: the flag was     *)
(* seen true (ok) or the call rejected for another reason                   *)
TypesetReturn(r, ok) ==
  /\ pc[r] = "typeset"
  /\ waited[r] <= waitForFunctionTimeout
  /\ ToImageCheck(r, ok)

(* paste: page.waitForFunction rejects with its TimeoutError                *)
TypesetTimeout(r) ==
  /\ pc[r] = "typeset"
  /\ waited[r] >= waitForFunctionTimeout
  /\ ToImageCheck(r, FALSE)

(* the function handed to page.evaluate runs in the page and builds the     *)
(* image promise                                                            *)
ImageEval(r, n, c) ==
  /\ pc[r] = "imgeval"
  /\ LET p == imagePromise(kind[r], n, c)
     IN /\ nImgs' = Set(nImgs, r, n)
        /\ pending' = Set(pending, r, p.listeners)
        /\ loaded' = Set(loaded, r, p.loaded)
        /\ listeners' = Set(listeners, r, p.listeners)
        /\ timer' = Set(timer, r, p.timer)
        /\ imgResolved' = Set(imgResolved, r, p.resolved)
        /\ resolveCalls' = Set(resolveCalls, r, p.calls)
  /\ pc' = Set(pc, r, "imgwait")
  /\ UNCHANGED <<kind, result, fetchVars, stageVars, waited, imgElapsed,
                 acquires, captures, closes, openPages, auxVars>>

(* a resolve(null) call made when the awaited evaluate has already returned *)
(* and page.screenshot is under way: it would start the continuation again  *)
(* only if it settled the promise a second time                             *)
LateResolve(r, call) ==
  captures' = Set(captures, r,
                  captures[r] + IF /\ call
                                   /\ imgResolved[r]
                                   /\ settles(imgResolved[r])
                                   /\ pc[r] = "capture"
                                THEN 1 ELSE 0)

(* an image that has listeners fires load or error while the page is open   *)
(* (an image fires one of the two, once): handler runs if the event is      *)
(* listened to                                                              *)
ImgEvent(r, ev) ==
  /\ pc[r] \in {"imgwait", "capture"}
  /\ pending[r] > 0
  /\ IF ev \in listenedEvents
     THEN LET e == handler(kind[r], loaded[r], nImgs[r], timer[r])
          IN /\ loaded' = Set(loaded, r, e.loaded)
             /\ timer' = Set(timer, r, e.timer)
             /\ imgResolved' = Set(imgResolved, r, imgResolved[r] \/ e.resolve)
             /\ resolveCalls' = Set(resolveCalls, r,
                                    resolveCalls[r] + IF e.resolve THEN 1 ELSE 0)
             /\ LateResolve(r, e.resolve)
     ELSE UNCHANGED <<loaded, timer, imgResolved, resolveCalls, captures>>
  /\ pending' = Set(pending, r, pending[r] - 1)
  /\ UNCHANGED <<pc, kind, result, fetchVars, stageVars, nImgs, listeners,
                 waited, imgElapsed, acquires, closes, openPages, auxVars>>

(* the 5000 ms timer fires while the page is open: resolve(null)            *)
TimerFire(r) ==
  /\ pc[r] \in {"imgwait", "capture"}
  /\ timer[r] = "armed"
  /\ imgElapsed[r] >= ImageCeiling
  /\ timer' = Set(timer, r, "fired")
  /\ imgResolved' = Set(imgResolved, r, TRUE)
  /\ resolveCalls' = Set(resolveCalls, r, resolveCalls[r] + 1)
  /\ LateResolve(r, TRUE)
  /\ UNCHANGED <<pc, kind, result, fetchVars, stageVars, nImgs, pending,
                 loaded, listeners, waited, imgElapsed, acquires, closes,
                 openPages, auxVars>>

(* page.evaluate of the image promise resolves: page.screenshot is called   *)
ImageReturn(r) ==
  /\ pc[r] = "imgwait"
  /\ evaluateSettled(imgResolved[r])
  /\ ToCapture(r, TRUE)

(* page.evaluate of the image promise rejects (`catch (e) {}`)              *)
ImageFault(r) ==
  /\ pc[r] \in {"imgeval", "imgwait"}
  /\ ToCapture(r, FALSE)

(* page.screenshot settles: `return h.image(buffer)` or the outer catch     *)
CaptureReturn(r, ok) ==
  /\ pc[r] = "capture"
  /\ captureFault' = Set(captureFault, r, ~ok)
  /\ EndTry(r, captureResult(ok))
  /\ UNCHANGED <<kind, fetchVars, idGiven, snapshot, navOk, fontChecked,
                 typesetChecked, imgChecked, degraded, puppeteerSeen,
                 navTimedOut, acquires, captures, auxVars>>

(* Time passes for an invocation that is suspended in a readiness wait (or  *)
(* in the capture, while the paste path's timer is still pending).  Time    *)
(* never passes beyond the deadline of a timer that has not fired.          *)
Elapse(r) ==
  /\ \/ /\ pc[r] = "font"
        /\ waited[r] < Tick
        /\ waited' = Set(waited, r, waited[r] + Tick)
        /\ UNCHANGED imgElapsed
     \/ /\ pc[r] = "typeset"
        /\ waited[r] < waitForFunctionTimeout
        /\ waited' = Set(waited, r,
             waited[r] + Min(Tick, waitForFunctionTimeout - waited[r]))
        /\ UNCHANGED imgElapsed
     \/ /\ pc[r] = "imgwait"
        /\ ~imgResolved[r]
        /\ IF timer[r] = "armed"
           THEN imgElapsed[r] < ImageCeiling
           ELSE imgElapsed[r] < Tick
        /\ LET d == IF timer[r] = "armed"
                    THEN Min(Tick, ImageCeiling - imgElapsed[r]) ELSE Tick
           IN /\ imgElapsed' = Set(imgElapsed, r, imgElapsed[r] + d)
              /\ waited' = Set(waited, r, waited[r] + d)
     \/ /\ pc[r] = "capture"
        /\ timer[r] = "armed"
        /\ imgElapsed[r] < ImageCeiling
        /\ imgElapsed' = Set(imgElapsed, r,
             imgElapsed[r] + Min(Tick, ImageCeiling - imgElapsed[r]))
        /\ UNCHANGED waited
  /\ UNCHANGED <<pc, kind, result, fetchVars, stageVars, nImgs, pending,
                 loaded, listeners, timer, imgResolved, resolveCalls,
                 acquires, captures, closes, openPages, auxVars>>

Next ==
  \/ \E r \in Req, k \in Kinds, hasId \in BOOLEAN : Invoke(r, k, hasId)
  \/ \E r \in Req, reached \in BOOLEAN, code \in EnvelopeCodes :
        FetchReturn(r, reached, code)
  \/ \E r \in Req, ok \in BOOLEAN, avail \in BOOLEAN : RenderReturn(r, ok, avail)
  \/ \E r \in Req, ok \in BOOLEAN : AcquireReturn(r, ok)
  \/ \E r \in Req, ok \in BOOLEAN : ViewportReturn(r, ok)
  \/ \E r \in Req, how \in {"ok", "timeout", "fault"} : NavReturn(r, how)
  \/ \E r \in Req, ok \in BOOLEAN : FontReturn(r, ok)
  \/ \E r \in Req, ok \in BOOLEAN : TypesetReturn(r, ok)
  \/ \E r \in Req : TypesetTimeout(r)
  \/ \E r \in Req, n \in 0..MaxImgs, c \in 0..MaxImgs : c <= n /\ ImageEval(r, n, c)
  \/ \E r \in Req, ev \in {"load", "error"} : ImgEvent(r, ev)
  \/ \E r \in Req : TimerFire(r)
  \/ \E r \in Req : ImageReturn(r)
  \/ \E r \in Req : ImageFault(r)
  \/ \E r \in Req, ok \in BOOLEAN : CaptureReturn(r, ok)
  \/ \E r \in Req : Elapse(r)

Spec == Init /\ [][Next]_vars

(***************************************************************************)
(* Properties of the render commands.                                      *)
(***************************************************************************)
InPage == {"viewport", "nav", "font", "typeset", "imgeval", "imgwait", "capture"}
Readiness == {"font", "typeset", "imgeval", "imgwait"}
Holds(r) == acquires[r] - closes[r]

(* C1: every render request that obtained a page from puppeteer.page()      *)
(* closes it exactly once, whatever the outcome; once every request has     *)
(* completed no page is left open.                                          *)
C1_ReleasedOnce ==
  /\ \A r \in Req :
       /\ acquires[r] \in {0, 1}
       /\ closes[r] \in {0, 1}
       /\ closes[r] <= acquires[r]
       /\ pc[r] = "done" => closes[r] = acquires[r]
       /\ pc[r] \in InPage => (acquires[r] = 1 /\ closes[r] = 0)
  /\ (\A r \in Req : pc[r] = "done") => openPages = 0

(* C1 witness: all requests are done, one after a capture that returned an  *)
(* image, one after a fault inside the try block; both closed their page    *)
C1_Witness ==
  /\ \A r \in Req : pc[r] = "done" /\ acquires[r] = 1 /\ closes[r] = 1
  /\ \E r \in Req : result[r] = "image"
  /\ \E r \in Req : result[r] = "failed"
  /\ openPages = 0

C3_ImageCeiling ==
  \A r \in Req :
    (pc[r] = "imgwait" /\ nImgs[r] > 0 /\ ~imgResolved[r]) =>
      /\ timer[r] = "armed"
      /\ imgElapsed[r] <= ImageCeiling
      /\ imgElapsed[r] = ImageCeiling => ENABLED TimerFire(r)

(* C3 witness: in both paths a wait was resolved by the timer at 5 s while  *)
(* an image was still pending, and the capture has started                  *)
C3_Witness ==
  \A k \in Kinds : \E r \in Req :
    /\ kind[r] = k
    /\ pc[r] = "capture"
    /\ pending[r] > 0
    /\ timer[r] = "fired"
    /\ imgElapsed[r] = ImageCeiling

(* C4: with zero images the image promise is resolved at once: no listener  *)
(* is registered, the timer is not started and no time passes in the wait.  *)
C4_NoImages ==
  \A r \in Req :
    (pc[r] = "imgwait" /\ nImgs[r] = 0) =>
      /\ imgResolved[r]
      /\ resolveCalls[r] = 1
      /\ listeners[r] = 0
      /\ timer[r] = "none"
      /\ imgElapsed[r] = 0

(* C4 witness: in both paths the promise was built for zero images *)
C4_Witness ==
  \A k \in Kinds : \E r \in Req :
    kind[r] = k /\ pc[r] = "imgwait" /\ nImgs[r] = 0 /\ imgResolved[r]

(* C5, as stated: every render session, article or paste, runs the font     *)
(* check and the image check before its capture.                            *)
C5_AsStated ==
  \A r \in Req : captures[r] > 0 => (fontChecked[r] /\ imgChecked[r])

(* C6: once setContent has succeeded the capture is always attempted: no    *)
(* rejection or timeout of a readiness check ends the request; a request    *)
(* that is past navigation is in a readiness check, or has called           *)
(* page.screenshot exactly once.                                            *)
C6_CaptureAttempted ==
  \A r \in Req :
    navOk[r] =>
      \/ pc[r] \in Readiness /\ captures[r] = 0
      \/ pc[r] \in {"capture", "done"} /\ captures[r] = 1

(* C6 witness: a request whose readiness check rejected has its image *)
C6_Witness ==
  \E r \in Req :
    degraded[r] /\ pc[r] = "done" /\ result[r] = "image" /\ captures[r] = 1

(* C7: an envelope code other than 200 ends the request with the not-found  *)
(* result at once: no snapshot, no page, no capture.                        *)
C7_NotFound ==
  \A r \in Req :
    (fetchOutcome[r] = "answered" /\ envCode[r] # OkCode) =>
      /\ pc[r] = "done"
      /\ result[r] = "notFound"
      /\ ~snapshot[r]
      /\ acquires[r] = 0
      /\ captures[r] = 0

(* C7 witness: both a 404 and a 500 envelope have ended a request *)
C7_Witness ==
  /\ \E r \in Req : envCode[r] = 404 /\ result[r] = "notFound"
  /\ \E r \in Req : envCode[r] = 500 /\ result[r] = "notFound"

(* C8, as stated: a transport failure of the fetch gives the caller a       *)
(* result value (Unavailable) that is not NotFound, and nothing is thrown.  *)
C8_AsStated ==
  \A r \in Req :
    (fetchOutcome[r] = "transport" /\ pc[r] = "done") =>
      result[r] \notin {"thrown", "notFound", "none"}

(* the source sets no pool size; any pool that could ever be exhausted is   *)
(* smaller than the number of concurrent requests                           *)
PoolSize == Cardinality(Req) - 1

C11_CaptureFault ==
  \A r \in Req :
    /\ fetches[r] <= 1
    /\ acquires[r] <= 1
    /\ captures[r] <= 1
    /\ captureFault[r] =>
         /\ pc[r] = "done"
         /\ result[r] = "failed"
         /\ captures[r] = 1
         /\ closes[r] = 1

C11_Witness ==
  \E r \in Req :
    /\ captureFault[r]
    /\ result[r] = "failed"
    /\ fetches[r] = 1
    /\ acquires[r] = 1
    /\ captures[r] = 1

C12_Order ==
  \A r \in Req :
    /\ snapshot[r] => fetchOutcome[r] = "answered" /\ envCode[r] = OkCode
    /\ (pc[r] = "acquire" \/ acquires[r] > 0) => snapshot[r]
    /\ pc[r] \in Readiness \cup {"capture"} => navOk[r]
    /\ captures[r] > 0 =>
         /\ navOk[r]
         /\ imgChecked[r]
         /\ kind[r] = "article" => fontChecked[r]
         /\ kind[r] = "paste" => typesetChecked[r]

C12_Step ==
  \A r \in Req :
    /\ (pc[r] = "font" /\ pc'[r] # "font") =>
         pc'[r] = "imgeval" /\ fontChecked'[r]
    /\ (pc[r] = "typeset" /\ pc'[r] # "typeset") =>
         /\ pc'[r] = "imgeval"
         /\ typesetChecked'[r]
    /\ (pc[r] # "capture" /\ pc'[r] = "capture") =>
         /\ pc[r] \in {"imgeval", "imgwait"}
         /\ imgResolved[r] \/ degraded'[r]

(* C12: within one request the stages run in the order fetch, render,       *)
(* prepare, capture: the snapshot exists only after the fetch returned a    *)
(* document, the page is acquired and loaded only after the snapshot        *)
(* exists, the readiness checks start only after setContent returned, and   *)
(* page.screenshot is called only from the image wait, once the image       *)
(* promise is resolved (all images counted, or its timer fired) or the      *)
(* check rejected and was caught; the font and typeset checks are left      *)
(* only towards the image wait.                                             *)
C12_StageOrder == [][C12_Step]_vars /\ []C12_Order

C12_Witness ==
  \E r \in Req :
    /\ pc[r] = "capture"
    /\ captures[r] = 1
    /\ kind[r] = "paste"
    /\ typesetChecked[r]
    /\ timer[r] = "fired"

(* C14: while the page of a session with images is open, every image is     *)
(* counted exactly once: the count is the images that were complete when    *)
(* the check started plus the images that have fired load or error since,   *)
(* so a broken image counts like a loaded one; and as soon as the count     *)
(* equals the number of images the image promise is resolved (in the        *)
(* article path with its timer cleared unless it had fired before), without *)
(* waiting for the 5 s timer.                                               *)
C14_ImagesCounted ==
  \A r \in Req :
    (pc[r] \in {"imgwait", "capture"} /\ nImgs[r] > 0) =>
      /\ loaded[r] + pending[r] = nImgs[r]
      /\ loaded[r] = (nImgs[r] - listeners[r]) + (listeners[r] - pending[r])
      /\ loaded[r] = nImgs[r] =>
           /\ imgResolved[r]
           /\ kind[r] = "article" => timer[r] \in {"cleared", "fired"}

C14_Witness ==
  \E r \in Req :
    /\ pc[r] = "imgwait"
    /\ nImgs[r] = 2
    /\ listeners[r] = 1
    /\ loaded[r] = 2
    /\ imgResolved[r]
    /\ timer[r] # "fired"
    /\ imgElapsed[r] < ImageCeiling

C15_Step ==
  \A r \in Req :
    closes'[r] # closes[r] =>
      /\ closes'[r] = closes[r] + 1
      /\ pc'[r] = "done"
      /\ \/ pc[r] = "capture"
         \/ pc[r] \in {"viewport", "nav"} /\ result'[r] = "failed"

(* C15: page.close() is called only in the step in which page.screenshot    *)
(* returns (with an image or a rejection) or in which setViewport or        *)
(* setContent rejects and ends the try block; while a readiness check or    *)
(* the capture is under way the page has not been closed, and no readiness  *)
(* wait is cut short by closing the page.                                   *)
C15_ReleaseAfterEnd ==
  /\ [][C15_Step]_vars
  /\ [](\A r \in Req : pc[r] \in InPage => closes[r] = 0 /\ Holds(r) = 1)

C15_Witness ==
  \E r, q \in Req :
    /\ pc[r] = "done"
    /\ captureFault[r]
    /\ closes[r] = 1
    /\ pc[q] = "imgwait"
    /\ imgElapsed[q] = ImageCeiling
    /\ closes[q] = 0

(* C16: a request is never held up by another one: whatever the other       *)
(* request is doing (suspended in its fetch, in setContent, or in a         *)
(* readiness wait that runs to its ceiling), a request in flight can take   *)
(* the next step of its own pipeline, the successful one included, so it    *)
(* can run to its own image whatever the outcome of the other.              *)
C16_Independent ==
  \A r \in Req :
    /\ pc[r] = "fetch" => ENABLED FetchReturn(r, TRUE, OkCode)
    /\ pc[r] = "render" => ENABLED RenderReturn(r, TRUE, TRUE)
    /\ pc[r] = "acquire" => ENABLED AcquireReturn(r, TRUE)
    /\ pc[r] = "viewport" => ENABLED ViewportReturn(r, TRUE)
    /\ pc[r] = "nav" => ENABLED NavReturn(r, "ok")
    /\ pc[r] = "font" => ENABLED FontReturn(r, TRUE)
    /\ pc[r] = "typeset" =>
         ENABLED TypesetReturn(r, TRUE) \/ ENABLED TypesetTimeout(r)
    /\ pc[r] = "imgeval" => ENABLED ImageEval(r, 0, 0)
    /\ pc[r] = "imgwait" =>
         \/ ENABLED ImageReturn(r)
         \/ ENABLED TimerFire(r)
         \/ ENABLED Elapse(r) /\ ENABLED ImgEvent(r, "load")
    /\ pc[r] = "capture" => ENABLED CaptureReturn(r, TRUE)

C16_Witness ==
  \E r, q \in Req :
    /\ pc[r] = "typeset"
    /\ waited[r] = TypesetCeiling
    /\ pc[q] = "done"
    /\ result[q] = "image"

C18_Step ==
  \A r \in Req :
    (/\ imgResolved[r]
     /\ pc'[r] # "done"
     /\ timer'[r] # timer[r] \/ pending'[r] # pending[r]) =>
      /\ pc'[r] = pc[r]
      /\ result'[r] = result[r]
      /\ captures'[r] = captures[r]
      /\ closes'[r] = closes[r]
      /\ imgResolved'[r]

(* C18: the image wait of a session completes once: a timer that fires      *)
(* after the promise was resolved (the paste path never clears it) or an    *)
(* image event that arrives after it leaves the position, the result and    *)
(* the capture and close counts of the request as they were; however many   *)
(* times resolve(null) is called, page.screenshot and page.close() are      *)
(* called at most once.                                                     *)
C18_WaitCompletesOnce ==
  /\ [][C18_Step]_vars
  /\ [](\A r \in Req : /\ captures[r] <= 1
                       /\ closes[r] <= 1
                       /\ resolveCalls[r] >= 1 => imgResolved[r])

C18_Witness ==
  \E r \in Req :
    /\ pc[r] = "capture"
    /\ kind[r] = "paste"
    /\ timer[r] = "fired"
    /\ resolveCalls[r] = 2
    /\ captures[r] = 1

(* C19: puppeteer.page() is called only for a request that was given an id, *)
(* whose fetch returned a document (envelope code 200), whose snapshot was  *)
(* generated and that found the puppeteer service; a request without an id  *)
(* ends with the need-an-id message and has sent no remote request; a       *)
(* request that finds no puppeteer service ends with the no-puppeteer       *)
(* message and has neither acquired nor closed a page.                      *)
C19_AcquireGuarded ==
  \A r \in Req :
    /\ fetches[r] > 0 => idGiven[r]
    /\ (pc[r] = "acquire" \/ acquires[r] > 0) =>
         /\ idGiven[r]
         /\ fetchOutcome[r] = "answered" /\ envCode[r] = OkCode
         /\ snapshot[r]
         /\ puppeteerSeen[r] = "yes"
    /\ (pc[r] # "idle" /\ ~idGiven[r]) =>
         /\ pc[r] = "done" /\ result[r] = "needId"
         /\ fetches[r] = 0 /\ fetchOutcome[r] = "none"
         /\ acquires[r] = 0 /\ closes[r] = 0
    /\ puppeteerSeen[r] = "no" =>
         /\ pc[r] = "done" /\ result[r] = "noPuppeteer"
         /\ acquires[r] = 0 /\ closes[r] = 0

C19_Witness ==
  \E r, q \in Req :
    /\ result[r] = "noPuppeteer"
    /\ puppeteerSeen[r] = "no"
    /\ snapshot[r]
    /\ result[q] = "needId"
    /\ fetches[q] = 0

(* C13, as stated: when page.setContent runs into its navigation timeout    *)
(* the request goes on: it is in a readiness check or the capture, or it    *)
(* has ended after calling page.screenshot.                                 *)
C13_AsStated ==
  \A r \in Req :
    navTimedOut[r] =>
      \/ pc[r] \in Readiness \cup {"capture"}
      \/ pc[r] = "done" /\ captures[r] = 1

(***************************************************************************)
(* buildUrl on its own: every endpoint and path up to MaxStrLen characters. *)
(***************************************************************************)
Strs == UNION {[1..n -> Chars] : n \in 0..MaxStrLen}

UrlInit ==
  /\ ReqInit
  /\ TaskIdle
  /\ endpoint \in Strs
  /\ path \in Strs
  /\ url = <<>>
  /\ ustate = "input"

BuildUrl ==
  /\ ustate = "input"
  /\ url' = buildUrl(endpoint, path)
  /\ ustate' = "built"
  /\ UNCHANGED <<endpoint, path, reqVars, taskVars>>

UrlSpec == UrlInit /\ [][BuildUrl]_vars

(***************************************************************************)
(* Properties of buildUrl.                                                 *)
(***************************************************************************)
StripTrailingSlash(s) ==
  IF s # <<>> /\ s[Len(s)] = "/" THEN SubSeq(s, 1, Len(s) - 1) ELSE s
StripLeadingSlash(s) ==
  IF s # <<>> /\ s[1] = "/" THEN SubSeq(s, 2, Len(s)) ELSE s
EndsWithSlash(s) == s # <<>> /\ s[Len(s)] = "/"
StartsWithSlash(s) == s # <<>> /\ s[1] = "/"

(* url is b, exactly one slash, p: the slash is there and neither side adds *)
(* another one to it                                                        *)
JoinedByOneSlash(u, b, p) ==
  /\ u = b \o <<"/">> \o p
  /\ ~EndsWithSlash(b)
  /\ ~StartsWithSlash(p)

(* C9, as stated: for every base and path, an empty base returns the path   *)
(* unchanged; otherwise the result is the base without one trailing slash,  *)
(* exactly one separating slash, and the path.                              *)
C9_AsStated ==
  ustate = "built" =>
    IF endpoint = <<>>
    THEN url = path
    ELSE JoinedByOneSlash(url, StripTrailingSlash(endpoint),
                          StripLeadingSlash(path))

(* C9, amended: a base that is empty once one trailing slash is trimmed ("" *)
(* or "/") returns the path unchanged; otherwise the result is the trimmed  *)
(* base, one slash and the path without one leading slash, which is exactly *)
(* one separating slash whenever the base does not end in two slashes and   *)
(* the path does not start with two.                                        *)
C9_BuildUrl ==
  ustate = "built" =>
    LET b == StripTrailingSlash(endpoint)
        p == StripLeadingSlash(path)
    IN /\ b = <<>> => url = path
       /\ b # <<>> => url = b \o <<"/">> \o p
       /\ (b # <<>> /\ ~EndsWithSlash(b) /\ ~StartsWithSlash(p))
            => JoinedByOneSlash(url, b, p)

(* C9 witness: "a/" + "/a" has been built, and is "a/a" *)
C9_Witness ==
  /\ ustate = "built"
  /\ endpoint = <<"a", "/">>
  /\ path = <<"/", "a">>
  /\ url = <<"a", "/", "a">>

(***************************************************************************)
(* The task commands 创建保存任务 and 查询任务状态 on their own, with the     *)
(* remote task table reduced to the one task the commands are about.  The  *)
(* remote moves a task along 0 -> 1 -> 2 | 3 at its own pace.               *)
(***************************************************************************)

(* createTask: `if (res.code !== 200) return null; return res.data.taskId`  *)
createTask(code, taskId) == IF code # OkCode THEN "null" ELSE taskId

(* 创建保存任务: `if (!id) return '创建失败'; return `保存任务已创建，ID: ...`` *)
createReply(id) == IF id = "null" THEN "createFailed" ELSE "created"

(* getTask: `if (res.code !== 200) return null; return res.data`; the       *)
(* client stores no earlier answer, so `last` plays no part                 *)
getTaskCached(code, data, last) ==
  IF last # <<>> THEN last ELSE IF code # OkCode THEN <<>> ELSE data

getTask(code, data, last) == IF code # OkCode THEN <<>> ELSE data

(* 查询任务状态: `if (task == null) return '任务不存在或返回为空'`, else the   *)
(* status of the record is reported                                        *)
queryReply(task) == IF task = <<>> THEN "notFound" ELSE "status"

TaskInit == ReqInit /\ UrlIdle /\ TaskIdle

(* 创建保存任务 <target> <targetId>: the body is built and posted at once   *)
Submit ==
  /\ tpc = "idle"
  /\ creates' = creates + 1
  /\ tpc' = "posting"
  /\ UNCHANGED <<remoteTask, tresult, createCode, ppc, presult, pstatus,
                 qcode, queries, lastData, reqVars, urlVars>>

(* ctx.http.post settles: a transport failure rejects (nothing catches it); *)
(* on code 200 the remote has created the task and answers its id           *)
CreateReturn(reached, code) ==
  /\ tpc = "posting"
  /\ tpc' = "done"
  /\ IF reached
     THEN /\ createCode' = code
          /\ tresult' = createReply(createTask(code, "t1"))
          /\ remoteTask' = IF code = OkCode /\ remoteTask = <<>>
                           THEN <<0>> ELSE remoteTask
     ELSE /\ tresult' = "thrown"
          /\ UNCHANGED <<createCode, remoteTask>>
  /\ UNCHANGED <<creates, ppc, presult, pstatus, qcode, queries, lastData,
                 reqVars, urlVars>>

(* the remote service moves the task on                                     *)
RemoteAdvance(s) ==
  /\ remoteTask # <<>>
  /\ \/ remoteTask[1] = 0 /\ s = 1
     \/ remoteTask[1] = 1 /\ s \in {2, 3}
  /\ remoteTask' = <<s>>
  /\ UNCHANGED <<tpc, tresult, createCode, creates, ppc, presult, pstatus,
                 qcode, queries, lastData, reqVars, urlVars>>

(* 查询任务状态 <id>: `if (!id) return '请提供任务 ID'`, else getTask sends   *)
(* GET /task/query/{id}                                                     *)
Poll(p, hasId) ==
  /\ ppc[p] = "idle"
  /\ IF hasId
     THEN /\ queries' = Set(queries, p, queries[p] + 1)
          /\ ppc' = Set(ppc, p, "querying")
          /\ UNCHANGED presult
     ELSE /\ presult' = Set(presult, p, "needId")
          /\ ppc' = Set(ppc, p, "done")
          /\ UNCHANGED queries
  /\ UNCHANGED <<remoteTask, tpc, tresult, createCode, creates, pstatus,
                 qcode, lastData, reqVars, urlVars>>

(* ctx.http.get settles: a transport failure rejects; else the envelope     *)
(* carries the record the remote holds now (null if it holds none)          *)
QueryReturn(p, reached, code) ==
  /\ ppc[p] = "querying"
  /\ ppc' = Set(ppc, p, "done")
  /\ IF reached
     THEN LET task == getTask(code, remoteTask, lastData)
          IN /\ qcode' = Set(qcode, p, code)
             /\ pstatus' = Set(pstatus, p, task)
             /\ presult' = Set(presult, p, queryReply(task))
             /\ lastData' = IF code = OkCode THEN remoteTask ELSE lastData
     ELSE /\ presult' = Set(presult, p, "thrown")
          /\ UNCHANGED <<qcode, pstatus, lastData>>
  /\ UNCHANGED <<remoteTask, tpc, tresult, createCode, creates, queries,
                 reqVars, urlVars>>

TaskNext ==
  \/ Submit
  \/ \E reached \in BOOLEAN, code \in EnvelopeCodes : CreateReturn(reached, code)
  \/ \E s \in TaskStatuses : RemoteAdvance(s)
  \/ \E p \in Pollers, hasId \in BOOLEAN : Poll(p, hasId)
  \/ \E p \in Pollers, reached \in BOOLEAN, code \in EnvelopeCodes :
       QueryReturn(p, reached, code)

TaskSpec == TaskInit /\ [][TaskNext]_vars

C17_Requests ==
  /\ creates <= 1
  /\ tpc = "done" =>
       /\ creates = 1
       /\ tresult = "created" <=> createCode = OkCode
       /\ createCode \notin {0, OkCode} => tresult = "createFailed"
  /\ \A p \in Pollers :
       /\ queries[p] <= 1
       /\ (ppc[p] = "done" /\ presult[p] # "needId") => queries[p] = 1
       /\ qcode[p] \notin {0, OkCode} => presult[p] = "notFound"
       /\ presult[p] = "status" => qcode[p] = OkCode /\ pstatus[p] # <<>>

C17_Step ==
  \A p \in Pollers :
    (ppc[p] = "querying" /\ ppc'[p] = "done" /\ qcode'[p] = OkCode) =>
      /\ pstatus'[p] = remoteTask
      /\ presult'[p] = "status" <=> remoteTask # <<>>

(* C17: the task commands read through to the remote with no retry and no   *)
(* cache: 创建保存任务 sends one POST /task/create and answers the created   *)
(* message exactly when the envelope code is 200, the failure message on    *)
(* any other code; 查询任务状态 with an id sends one GET /task/query, gives  *)
(* the not-found message on a code other than 200, and on code 200 reports  *)
(* the record the remote holds at that moment, so polls made at different   *)
(* moments report the status current at each.                               *)
C17_ReadThrough == [][C17_Step]_vars /\ []C17_Requests

C17_Witness ==
  \E p, q \in Pollers :
    /\ tresult = "created"
    /\ creates = 1
    /\ presult[p] = "status" /\ pstatus[p] = <<0>> /\ queries[p] = 1
    /\ presult[q] = "status" /\ pstatus[q] = <<2>> /\ queries[q] = 1

====
